---------------------------- MODULE Spec2Model ----------------------------
(***************************************************************************)
(* Model of src/src/collector.py: the playlist-to-dataset pipeline of      *)
(* SpotifyDataCollector (get_playlist_tracks, get_lyrics, get_track_data,  *)
(* collect_playlist_data).                                                 *)
(*                                                                         *)
(* Python values are modelled as follows.  A JSON scalar is a string (a    *)
(* number or a boolean is its literal, "0", "False"); a key that is        *)
(* missing from a dict is ABSENT and Python's None is NULL.  A dict is a   *)
(* record that always carries every key the code reads, a missing key      *)
(* holding ABSENT; "kind" tells a dict from None and from a value of       *)
(* another type (on which .get raises AttributeError).                     *)
(***************************************************************************)
EXTENDS Integers, Sequences, FiniteSets, TLC

VARIABLES provider, pc, results, tracks, requests, i, all_track_data,
          lookups, sleeps, written, raised

vars == <<provider, pc, results, tracks, requests, i, all_track_data,
          lookups, sleeps, written, raised>>

(***************************************************************************)
(* Bounds of the model.                                                    *)
(***************************************************************************)
MaxArtists == 2
MaxPages == 2
MaxPageLen == 2
MaxEntries == 3
MaxThrottleLen == 42
ThrottlePageLen == 16

(***************************************************************************)
(* Python values.                                                          *)
(***************************************************************************)
ABSENT == "<absent>"
NULL == "<None>"
RAISE == "<raise>"

\* dict.get(key): None when the key is missing.
Get(v) == IF v = ABSENT THEN NULL ELSE v

\* dict.get(key, default): the default only when the key is missing; a key
\* that is present with the value None yields None.
GetDefault(v, default) == IF v = ABSENT THEN default ELSE v

\* Truth value of a scalar: None and the empty string are false.
Truthy(v) == v # NULL /\ v # ""

\* ', '.join(list of str)
RECURSIVE Join(_)
Join(names) ==
    IF names = <<>> THEN ""
    ELSE IF Len(names) = 1 THEN names[1]
    ELSE names[1] \o ", " \o Join(Tail(names))

(***************************************************************************)
(* The shapes of a playlist entry.                                         *)
(***************************************************************************)
NoArtist == [kind |-> "other", name |-> ABSENT, id |-> ABSENT]
ArtistShapes ==
    {NoArtist,
     [kind |-> "dict", name |-> "Ann", id |-> "a1"],
     [kind |-> "dict", name |-> ABSENT, id |-> ABSENT],
     [kind |-> "dict", name |-> NULL, id |-> "a2"],
     [kind |-> "dict", name |-> "", id |-> NULL]}

ArtistLists ==
    UNION {[1..n -> ArtistShapes] : n \in 0..MaxArtists}

ArtistsShapes ==
    {[kind |-> "absent", items |-> <<>>], [kind |-> "null", items |-> <<>>]}
    \cup [kind : {"list"}, items : ArtistLists]

AlbumShapes ==
    {[kind |-> k, name |-> ABSENT, release_date |-> ABSENT] :
        k \in {"absent", "null", "other"}}
    \cup [kind : {"dict"}, name : {ABSENT, NULL, "LP"},
          release_date : {ABSENT, "2020"}]

NoAlbum == [kind |-> "absent", name |-> ABSENT, release_date |-> ABSENT]
NoArtists == [kind |-> "absent", items |-> <<>>]

TrackDicts ==
    [kind : {"dict"},
     id : {ABSENT, NULL, "", "t1"},
     name : {ABSENT, NULL, "Unknown Track", "Song"},
     popularity : {ABSENT, NULL, "50"},
     explicit : {ABSENT, "True"},
     duration_ms : {ABSENT, "1000"},
     album : AlbumShapes,
     artists : ArtistsShapes]

NonTrack(k) ==
    [kind |-> k, id |-> ABSENT, name |-> ABSENT, popularity |-> ABSENT,
     explicit |-> ABSENT, duration_ms |-> ABSENT, album |-> NoAlbum,
     artists |-> NoArtists]

TrackShapes == TrackDicts \cup {NonTrack(k) : k \in {"absent", "null", "other"}}

NullEntry == [kind |-> "null", track |-> NonTrack("absent")]

EntryShapes == {NullEntry} \cup [kind : {"dict"}, track : TrackShapes]

(***************************************************************************)
(* get_lyrics: the provider's search either finds a song, finds none or    *)
(* raises; every exception is caught and becomes None.                     *)
(***************************************************************************)
LyricsOutcomes == {"found", "nomatch", "raise"}
LyricsText == "la la la"

get_lyrics_uncaught(outcome) ==
    CASE outcome = "found" -> LyricsText
      [] outcome = "nomatch" -> NULL
      [] OTHER -> RAISE

get_lyrics(outcome) ==
    CASE outcome = "found" -> LyricsText
      [] outcome = "nomatch" -> NULL
      [] OTHER -> NULL

(***************************************************************************)
(* get_track_data.  The result is [kind, rec, search]: kind "raise" when   *)
(* the call raises, "none" when it returns None, "record" when it returns  *)
(* the dict rec; search is what the lyrics provider's search did, or       *)
(* "notcalled".                                                            *)
(***************************************************************************)
IsDict(v) == v.kind = "dict"

\* Truth value of a dict-or-None value: None and the empty dict are false.
TrackTruthy(t) ==
    \/ t.kind = "other"
    \/ /\ t.kind = "dict"
       /\ \/ t.id # ABSENT \/ t.name # ABSENT \/ t.popularity # ABSENT
          \/ t.explicit # ABSENT \/ t.duration_ms # ABSENT
          \/ t.album.kind # "absent" \/ t.artists.kind # "absent"

AlbumTruthy(a) ==
    \/ a.kind = "other"
    \/ a.kind = "dict" /\ (a.name # ABSENT \/ a.release_date # ABSENT)

\* ', '.join([artist.get('name', 'Unknown Artist') for artist in artists
\*            if isinstance(artist, dict)])
artist_names_of(artists) ==
    IF artists.kind = "null" THEN RAISE
    ELSE LET dicts == SelectSeq(artists.items, IsDict)
             names == [k \in 1..Len(dicts) |->
                          GetDefault(dicts[k].name, "Unknown Artist")]
         IN  IF \E k \in 1..Len(names) : names[k] = NULL THEN RAISE
             ELSE Join(names)

\* ', '.join([artist.get('id', 'Unknown ID') for artist in artists
\*            if isinstance(artist, dict) and 'id' in artist])
HasId(a) == IsDict(a) /\ a.id # ABSENT

artist_ids_of(artists) ==
    IF artists.kind = "null" THEN RAISE
    ELSE LET dicts == SelectSeq(artists.items, HasId)
             ids == [k \in 1..Len(dicts) |-> GetDefault(dicts[k].id, "Unknown ID")]
         IN  IF \E k \in 1..Len(ids) : ids[k] = NULL THEN RAISE
             ELSE Join(ids)

\* album.get(key, default) if album else default
album_field(album, value, default) ==
    IF AlbumTruthy(album)
    THEN IF album.kind = "other" THEN RAISE ELSE GetDefault(value, default)
    ELSE default

NoRecord ==
    [id |-> NULL, name |-> NULL, popularity |-> NULL, explicit |-> NULL,
     duration_ms |-> NULL, album_name |-> NULL, album_release_date |-> NULL,
     artist_names |-> NULL, artist_ids |-> NULL, lyrics |-> NULL]

ReturnNone == [kind |-> "none", rec |-> NoRecord, search |-> "notcalled"]
Raises == [kind |-> "raise", rec |-> NoRecord, search |-> "notcalled"]

WantsLyricsEither(artist_names, track_name) ==
    artist_names # "" \/ track_name # "Unknown Track"

\* if artist_names and track_name != 'Unknown Track'
WantsLyrics(artist_names, track_name) ==
    artist_names # "" /\ track_name # "Unknown Track"

\* The body of the try block, for a track that is a dict.
track_data_of(track, outcome) ==
    LET track_id == Get(track.id)
        artist_names == artist_names_of(track.artists)
        artist_ids == artist_ids_of(track.artists)
        track_name == GetDefault(track.name, "Unknown Track")
        album_name == album_field(track.album, track.album.name, "Unknown Album")
        album_date == album_field(track.album, track.album.release_date,
                                  "Unknown Date")
        track_data ==
            [id |-> track_id, name |-> track_name,
             popularity |-> GetDefault(track.popularity, "0"),
             explicit |-> GetDefault(track.explicit, "False"),
             duration_ms |-> GetDefault(track.duration_ms, "0"),
             album_name |-> album_name, album_release_date |-> album_date,
             artist_names |-> artist_names, artist_ids |-> artist_ids,
             lyrics |-> NULL]
    IN  IF ~Truthy(track_id) THEN ReturnNone
        ELSE IF RAISE \in {artist_names, artist_ids, album_name, album_date}
        THEN ReturnNone
        ELSE IF WantsLyrics(artist_names, track_name)
        THEN LET lyrics == get_lyrics(outcome)
             IN  IF lyrics = RAISE
                 THEN [kind |-> "none", rec |-> NoRecord, search |-> outcome]
                 ELSE [kind |-> "record",
                       rec |-> [track_data EXCEPT !.lyrics = lyrics],
                       search |-> outcome]
        ELSE [kind |-> "record", rec |-> track_data, search |-> "notcalled"]

get_track_data_unguarded(track_item, outcome) ==
    IF track_item.kind # "dict" THEN Raises
    ELSE IF ~TrackTruthy(track_item.track) THEN ReturnNone
    ELSE IF track_item.track.kind = "other" THEN Raises
    ELSE track_data_of(track_item.track, outcome)

get_track_data(track_item, outcome) ==
    IF track_item.kind # "dict" THEN Raises
    ELSE IF ~TrackTruthy(track_item.track) THEN ReturnNone
    ELSE IF track_item.track.kind = "other" THEN ReturnNone
    ELSE track_data_of(track_item.track, outcome)

(***************************************************************************)
(* The playlist provider: a finite chain of pages.  Page p carries its     *)
(* items and the pointer to page p + 1, absent (0) on the last page.       *)
(***************************************************************************)
Page(chain, p) ==
    [items |-> chain[p], next |-> IF p < Len(chain) THEN p + 1 ELSE 0]

NoResults == [items |-> <<>>, next |-> 0]

RECURSIVE Flatten(_)
Flatten(pages) ==
    IF pages = <<>> THEN <<>> ELSE pages[1] \o Flatten(Tail(pages))

Track(id, name, artists) ==
    [kind |-> "dict", id |-> id, name |-> name, popularity |-> "50",
     explicit |-> ABSENT, duration_ms |-> "1000",
     album |-> [kind |-> "dict", name |-> "LP", release_date |-> ABSENT],
     artists |-> artists]

Entry(track) == [kind |-> "dict", track |-> track]

Ann == [kind |-> "dict", name |-> "Ann", id |-> "a1"]

\* A track with a name and an artist: its lyrics are looked up.
SongEntry == Entry(Track("t1", "Song", [kind |-> "list", items |-> <<Ann>>]))
\* A track without artists: a record, and no lookup.
PlainEntry == Entry(Track("t2", "Tune", NoArtists))
\* A slot whose track was removed from the catalog.
RemovedEntry == Entry(NonTrack("null"))
\* A track whose artist list is null.
NullArtistsEntry ==
    Entry(Track("t3", "Air", [kind |-> "null", items |-> <<>>]))

\* A track that is not a dict.
MalformedTrackEntry == Entry(NonTrack("other"))

OrchEntries ==
    {SongEntry, PlainEntry, RemovedEntry, NullArtistsEntry,
     MalformedTrackEntry, NullEntry}

RECURSIVE Sum(_)
Sum(lens) == IF lens = <<>> THEN 0 ELSE lens[1] + Sum(Tail(lens))

\* The page lengths of a chain: 1..MaxPages pages of 0..MaxPageLen items,
\* at most MaxEntries items in all.
PageLengths ==
    {lens \in UNION {[1..n -> 0..MaxPageLen] : n \in 1..MaxPages} :
        Sum(lens) <= MaxEntries}

\* The playlist cut into pages of the given lengths.
Cut(list, lens) ==
    [p \in 1..Len(lens) |->
        SubSeq(list, Sum(SubSeq(lens, 1, p - 1)) + 1, Sum(SubSeq(lens, 1, p)))]

PageChains ==
    UNION {{Cut(list, lens) : list \in [1..Sum(lens) -> OrchEntries]} :
              lens \in PageLengths}

(***************************************************************************)
(* State.  pc is the orchestrator's state (Idle, Paginating, Enriching,    *)
(* Writing, Done, Failed); results, tracks are get_playlist_tracks'        *)
(* locals and requests counts its page requests; i, all_track_data are     *)
(* collect_playlist_data's loop index and accumulator; lookups records,    *)
(* per processed entry, what the lyrics search did; sleeps lists the       *)
(* indices after which time.sleep was called; written is the output file;  *)
(* raised names the call whose exception left collect_playlist_data.       *)
(***************************************************************************)
NotWritten == [exists |-> FALSE, rows |-> <<>>]

Idle(chain) ==
    /\ provider = chain
    /\ pc = "Idle"
    /\ results = NoResults
    /\ tracks = <<>>
    /\ requests = 0
    /\ i = 0
    /\ all_track_data = <<>>
    /\ lookups = <<>>
    /\ sleeps = <<>>
    /\ written = NotWritten
    /\ raised = "none"

Init == \E chain \in PageChains : Idle(chain)

\* The orchestrator's state once get_playlist_tracks has returned: the for
\* loop runs over the entries, and is skipped when there are none.
AfterWalk(entries) == IF Len(entries) = 0 THEN "Writing" ELSE "Enriching"

ExtendOverwrite(list, items) == items

\* tracks.extend(results['items'])
Extend(list, items) == list \o items

\* collect_playlist_data is called: print, then get_playlist_tracks.
Start ==
    /\ pc = "Idle"
    /\ pc' = "Paginating"
    /\ UNCHANGED <<provider, results, tracks, requests, i, all_track_data,
                   lookups, sleeps, written, raised>>

\* results = self.sp.playlist_tracks(playlist_id); tracks = results['items']
PlaylistTracks ==
    /\ pc = "Paginating"
    /\ requests = 0
    /\ requests' = 1
    /\ \E ok \in BOOLEAN :
          IF ok
          THEN /\ results' = Page(provider, 1)
               /\ tracks' = results'.items
               /\ pc' = IF results'.next # 0 THEN "Paginating"
                        ELSE AfterWalk(tracks')
               /\ raised' = raised
          ELSE /\ pc' = "Failed"
               /\ raised' = "playlist_tracks"
               /\ UNCHANGED <<results, tracks>>
    /\ UNCHANGED <<provider, i, all_track_data, lookups, sleeps, written>>

\* while results['next']: results = self.sp.next(results); tracks.extend(...)
NextPage ==
    /\ pc = "Paginating"
    /\ requests > 0
    /\ results.next # 0
    /\ requests' = requests + 1
    /\ \E ok \in BOOLEAN :
          IF ok
          THEN /\ results' = Page(provider, results.next)
               /\ tracks' = Extend(tracks, results'.items)
               /\ pc' = IF results'.next # 0 THEN "Paginating"
                        ELSE AfterWalk(tracks')
               /\ raised' = raised
          ELSE /\ pc' = "Failed"
               /\ raised' = "next"
               /\ UNCHANGED <<results, tracks>>
    /\ UNCHANGED <<provider, i, all_track_data, lookups, sleeps, written>>

AccumulateFront(acc, r) == IF r.kind = "record" THEN <<r.rec>> \o acc ELSE acc

\* if track_data: all_track_data.append(track_data)
Accumulate(acc, r) == IF r.kind = "record" THEN Append(acc, r.rec) ELSE acc

\* if i % 20 == 0 and i > 0: time.sleep(2)
SleepEvery == 20

ShouldSleepAtZero(idx) == idx % SleepEvery = 0

ShouldSleep(idx) == idx % SleepEvery = 0 /\ idx > 0

\* One iteration of the for loop over enumerate(tracks).
Enrich ==
    /\ pc = "Enriching"
    /\ i < Len(tracks)
    /\ \E outcome \in LyricsOutcomes :
          LET r == get_track_data(tracks[i + 1], outcome)
          IN  IF r.kind = "raise"
              THEN /\ pc' = "Failed"
                   /\ raised' = "get_track_data"
                   /\ UNCHANGED <<i, all_track_data, lookups, sleeps>>
              ELSE /\ all_track_data' = Accumulate(all_track_data, r)
                   /\ lookups' = Append(lookups, r.search)
                   /\ sleeps' = IF ShouldSleep(i) THEN Append(sleeps, i)
                                ELSE sleeps
                   /\ i' = i + 1
                   /\ pc' = IF i + 1 = Len(tracks) THEN "Writing"
                            ELSE "Enriching"
                   /\ raised' = raised
    /\ UNCHANGED <<provider, results, tracks, requests, written>>

\* df = pd.DataFrame(all_track_data); os.makedirs(...); df.to_csv(...)
Write ==
    /\ pc = "Writing"
    /\ \E ok \in BOOLEAN :
          IF ok
          THEN /\ written' = [exists |-> TRUE, rows |-> all_track_data]
               /\ pc' = "Done"
               /\ raised' = raised
          ELSE /\ written' = written
               /\ pc' = "Failed"
               /\ raised' = "write"
    /\ UNCHANGED <<provider, results, tracks, requests, i, all_track_data,
                   lookups, sleeps>>

Next == Start \/ PlaylistTracks \/ NextPage \/ Enrich \/ Write

Spec == Init /\ [][Next]_vars

(***************************************************************************)
(* get_track_data on its own: one call on an entry of any shape.           *)
(***************************************************************************)
OneEntry(e) ==
    /\ provider = <<<<e>>>>
    /\ pc = "Enriching"
    /\ results = Page(provider, 1)
    /\ tracks = <<e>>
    /\ requests = 1
    /\ i = 0
    /\ all_track_data = <<>>
    /\ lookups = <<>>
    /\ sleeps = <<>>
    /\ written = NotWritten
    /\ raised = "none"

InitTrack == \E e \in EntryShapes : OneEntry(e)

NextTrack == Enrich

SpecTrack == InitTrack /\ [][NextTrack]_vars

(***************************************************************************)
(* Long playlists, for the throttle: n entries without lookups, at most    *)
(* one of them a removed track, served in pages of ThrottlePageLen.        *)
(***************************************************************************)
LongPlaylist(n, removedAt) ==
    [k \in 1..n |-> IF k = removedAt THEN RemovedEntry ELSE PlainEntry]

Min(a, b) == IF a < b THEN a ELSE b

Paged(list, size) ==
    IF Len(list) = 0 THEN << <<>> >>
    ELSE [p \in 1..((Len(list) + size - 1) \div size) |->
             SubSeq(list, (p - 1) * size + 1, Min(p * size, Len(list)))]

InitThrottle ==
    \E n \in 0..MaxThrottleLen : \E removedAt \in 0..n :
        Idle(Paged(LongPlaylist(n, removedAt), ThrottlePageLen))

SpecThrottle == InitThrottle /\ [][Next]_vars

(***************************************************************************)
(* Properties.                                                             *)
(***************************************************************************)
\* What get_track_data did on the k-th processed entry.
Result(k) == get_track_data(tracks[k], lookups[k])

\* The processed entries that yielded a record, and the row of the k-th.
Yielding == {k \in 1..i : Result(k).kind = "record"}
Rank(k) == Cardinality({j \in Yielding : j <= k})
Row(k) == all_track_data[Rank(k)]

\* The entry has a track payload that carries a non-empty id.
HasValidId(e) ==
    e.kind = "dict" /\ e.track.kind = "dict" /\ Truthy(Get(e.track.id))

\* get_playlist_tracks has returned.
Walked ==
    \/ pc \in {"Enriching", "Writing", "Done"}
    \/ pc = "Failed" /\ raised \in {"get_track_data", "write"}

BaseFields ==
    {"id", "name", "popularity", "explicit", "duration_ms", "album_name",
     "album_release_date", "artist_names", "artist_ids"}

\* C1: a finished run writes as many rows as there are entries with a
\* non-null track that carries a non-empty id.
C1_RowCountIsValidIds ==
    pc = "Done" =>
        Len(written.rows) =
            Cardinality({k \in 1..Len(tracks) : HasValidId(tracks[k])})

\* C2: in every record of an entry with a valid id, none of the base fields
\* is null.
C2_BaseFieldsNeverNull ==
    \A k \in 1..Len(all_track_data) :
        \A f \in BaseFields : all_track_data[k][f] # NULL

\* C3: a record whose joined artist names are empty or whose name is the
\* sentinel "Unknown Track" has null lyrics and the lyrics search was not
\* called for its entry; the search is called (once) for an entry exactly
\* when the entry yields a record with non-empty artist names and a name
\* other than the sentinel.
C3_LyricsOnlyWhenSearchable ==
    /\ Len(lookups) = i
    /\ \A k \in 1..i :
          /\ lookups[k] # "notcalled" =>
                /\ k \in Yielding
                /\ Row(k).artist_names # ""
                /\ Row(k).name # "Unknown Track"
          /\ (k \in Yielding
                /\ (Row(k).artist_names = "" \/ Row(k).name = "Unknown Track"))
             => (Row(k).lyrics = NULL /\ lookups[k] = "notcalled")
          /\ (k \in Yielding /\ Row(k).artist_names # ""
                /\ Row(k).name # "Unknown Track")
             => lookups[k] \in LyricsOutcomes

C3_Witness ==
    /\ i = 1
    /\ Len(all_track_data) = 1
    /\ all_track_data[1].artist_names = ""
    /\ all_track_data[1].name = "Song"
    /\ all_track_data[1].lyrics = NULL
    /\ lookups = <<"notcalled">>
    /\ Len(tracks[1].track.artists.items) = 2

\* C4: while paginating, tracks is the concatenation of the pages requested
\* so far, in order; once get_playlist_tracks has returned, tracks is the
\* concatenation of all the pages of the chain and exactly one request per
\* page was made.
C4_ConcatenatesPages ==
    /\ pc = "Paginating" =>
          /\ requests <= Len(provider)
          /\ tracks = Flatten(SubSeq(provider, 1, requests))
    /\ Walked =>
          /\ requests = Len(provider)
          /\ tracks = Flatten(provider)

C4_Witness ==
    /\ pc = "Enriching"
    /\ i = 0
    /\ Len(provider) = 2
    /\ Len(provider[1]) = 2
    /\ Len(provider[2]) = 1
    /\ provider[1][1] # provider[1][2]
    /\ provider[1][2] # provider[2][1]
    /\ tracks = <<provider[1][1], provider[1][2], provider[2][1]>>
    /\ requests = 2

\* C5: an entry whose lyrics search raised still yields a record, equal to
\* the record of a successful search but for lyrics = null, and an entry
\* whose search found a song keeps its lyrics whatever the searches of the
\* other entries did.
C5_LyricsFailureIsolated ==
    \A k \in 1..i :
        /\ lookups[k] = "raise" =>
              /\ k \in Yielding
              /\ Row(k) = [get_track_data(tracks[k], "found").rec
                              EXCEPT !.lyrics = NULL]
        /\ lookups[k] = "found" =>
              /\ k \in Yielding
              /\ Row(k) = get_track_data(tracks[k], "found").rec
              /\ Row(k).lyrics = LyricsText

C5_Witness ==
    /\ pc = "Done"
    /\ lookups = <<"found", "raise", "found">>
    /\ Len(written.rows) = 3
    /\ written.rows[1].lyrics = LyricsText
    /\ written.rows[2].lyrics = NULL
    /\ written.rows[2].id = "t1"
    /\ written.rows[3].lyrics = LyricsText

\* C6: the pauses taken after i processed entries are exactly those at the
\* indices below i that are positive multiples of 20, whether or not the
\* entries yielded a record; so a run over n >= 1 entries has paused
\* (n - 1) \div 20 times when it writes, and a run over no entry never;
\* every entry but the one whose track was removed has given a row.
C6_ThrottleCadence ==
    /\ sleeps = [k \in 1..((i - 1) \div 20) |-> 20 * k]
    /\ pc \in {"Writing", "Done"} =>
          /\ i = Len(tracks)
          /\ Len(sleeps) = IF Len(tracks) >= 1 THEN (Len(tracks) - 1) \div 20
                           ELSE 0
          /\ Len(all_track_data) =
                Cardinality({k \in 1..Len(tracks) : tracks[k] # RemovedEntry})

C6_Witness ==
    /\ pc = "Done"
    /\ Len(tracks) = 25
    /\ tracks[11] = RemovedEntry
    /\ Len(written.rows) = 24
    /\ sleeps = <<20>>

\* C7: get_track_data never raises, whatever the shape of the entry: a run
\* never fails while enriching.
C7_EnrichingNeverFails == raised # "get_track_data"

\* C8: an entry with a valid track id (and an album that is a dict or
\* missing) is never dropped because of its artist list: it yields a record.
C8_ArtistListNeverDrops ==
    \A k \in 1..i :
        (HasValidId(tracks[k]) /\ tracks[k].track.album.kind # "other")
            => k \in Yielding

\* C9 as stated: a run fails only because the first page fetch failed or
\* because writing failed.
C9_FailsOnlyOnFirstPageOrWrite ==
    pc = "Failed" => raised \in {"playlist_tracks", "write"}

\* C9 as amended: a run fails only because a page fetch failed (the first
\* or a later page, while paginating), because get_track_data raised on an
\* entry that is not a dict (while enriching), or because writing failed;
\* a run that is done has written its rows; every other state has a next
\* step.
C9_FailureCauses ==
    /\ (pc = "Failed") = (raised # "none")
    /\ raised \in {"none", "playlist_tracks", "next", "get_track_data", "write"}
    /\ raised = "playlist_tracks" => requests = 1 /\ tracks = <<>>
    /\ raised = "next" => requests > 1 /\ results.next # 0
    /\ raised = "get_track_data" =>
          /\ Walked /\ i < Len(tracks)
          /\ tracks[i + 1].kind # "dict"
    /\ raised = "write" => i = Len(tracks)
    /\ pc = "Done" => written = [exists |-> TRUE, rows |-> all_track_data]
    /\ pc \notin {"Done", "Failed"} => ENABLED Next

C9_Witness ==
    /\ pc = "Failed"
    /\ raised = "next"
    /\ requests = 2
    /\ Len(provider) = 2

\* C10: the accumulator holds, in playlist order, the records of the
\* processed entries that yielded one, and the written rows are the
\* accumulator.
C10_PlaylistOrder ==
    /\ Len(all_track_data) = Cardinality(Yielding)
    /\ \A k \in Yielding : Row(k) = Result(k).rec
    /\ written.exists => written.rows = all_track_data

C10_Witness ==
    /\ pc = "Done"
    /\ Len(tracks) = 3
    /\ tracks[1] = SongEntry
    /\ tracks[2] = RemovedEntry
    /\ tracks[3] = PlainEntry
    /\ Len(written.rows) = 2
    /\ written.rows[1].id = "t1"
    /\ written.rows[2].id = "t2"

=============================================================================
